---- MODULE Spec2Model ----
(***************************************************************************)
(* Model of draft-js-create-inline-style-plugin (src/src/index.js).        *)
(*                                                                         *)
(* An EditorState is a record                                              *)
(*   [blocks, selection, override, undo]                                   *)
(* blocks    : the ContentState's block map, in document order; a block is *)
(*             [key, text, chars]: text is a sequence of one-character     *)
(*             strings, chars[i] the OrderedSet of style names of the      *)
(*             character at offset i-1, kept as a duplicate-free sequence  *)
(*             in insertion order;                                         *)
(* selection : [key, anchor, focus] (never backward, so the start offset   *)
(*             is the anchor and the end offset the focus);                *)
(* override  : the inlineStyleOverride, NoOverride (null) or               *)
(*             Override(styles) with styles an OrderedSet as above;        *)
(* undo      : the number of entries of the undo stack.                    *)
(* Offsets are 0-based as in the source; sequences are 1-based.            *)
(***************************************************************************)
EXTENDS Integers, Sequences, FiniteSets, TLC

VARIABLES
    decorators,   \* the plugin's rule list: Seq([strategy, styles])
    host,         \* the EditorState the host's getEditorState() returns
    timers,       \* the setTimeout queue: deferred tasks in FIFO order
    last          \* record of the last plugin operation (observation only)

vars == <<decorators, host, timers, last>>

----------------------------------------------------------------------------
(* Bounds of the model *)

MaxLen == 2        \* longest text of a block in the bounded document
MaxBlocks == 2     \* most blocks of the bounded document
MaxUndo == 3       \* most entries of the undo stack
MaxTimers == 1     \* most pending deferred tasks
MaxText == 3       \* longest text of the documents a single pass is tried on

\* the scenario text of the README's rules: *bold* and ~under~
ScenarioText ==
    <<"*", "b", "o", "l", "d", "*", " ", "a", "n", "d", " ", "~", "u", "n", "d", "e", "r", "~">>

\* carets the host may set: any offset of any text of the model
MaxCaret == Len(ScenarioText)

\* JavaScript's undefined / a field that does not apply
Undefined == [undefined |-> TRUE]

\* inlineStyleOverride: null, or an OrderedSet of style names
NoOverride == [present |-> FALSE, styles |-> <<>>]
Override(styles) == [present |-> TRUE, styles |-> styles]

StyleNames == {"BOLD", "UNDERLINE"}
Alphabet == {"a", "*"}

Min(a, b) == IF a < b THEN a ELSE b
Max(a, b) == IF a > b THEN a ELSE b

SeqRange(s) == {s[i] : i \in 1..Len(s)}

\* `const v = value; return F(v)`: the value is computed once and F reads the result
Const(value, F(_)) == CHOOSE result \in {F(v) : v \in {value}} : TRUE

----------------------------------------------------------------------------
(* The document model the plugin consumes (draft-js / immutable calls) *)

\* applyStyle replacing the character's styles by the one applied
applyStyle_replace(charStyle, style) == <<style>>

\* OrderedSet.add, as CharacterMetadata.applyStyle uses it: append unless present
applyStyle(charStyle, style) ==
    IF style \in SeqRange(charStyle) THEN charStyle ELSE Append(charStyle, style)

\* immutable's index resolution of List.slice: a negative index counts from the end
resolveIndex(index, size) ==
    IF index < 0 THEN Max(0, size + index) ELSE Min(size, index)

\* List.slice(begin, end)
slice(list, begin, end) ==
    LET b == resolveIndex(begin, Len(list))
        e == resolveIndex(end, Len(list))
    IN  IF e <= b THEN <<>> ELSE SubSeq(list, b + 1, e)

\* ContentState.getBlockForKey; the keys used are keys of the block map
blockIndex(content, key) == CHOOSE i \in 1..Len(content) : content[i].key = key
getBlockForKey(content, key) == content[blockIndex(content, key)]

\* List.get / List.set wrap a negative index once; outside the list get is undefined
wrapIndex(index, size) == IF index < 0 THEN size + index ELSE index

\* Modifier.applyInlineStyle on a selection inside one block: the loop
\*   while (sliceStart < sliceEnd) chars = chars.set(sliceStart, applyStyle(chars.get(sliceStart)))
\* error: some visited offset has no character (applyStyle of undefined throws)
ModifierApplyInlineStyle(content, selection, style) ==
    LET bi == blockIndex(content, selection.key)
        block == content[bi]
        size == Len(block.chars)
        visited == {o \in selection.anchor..(selection.focus - 1) : TRUE}
        hit == {wrapIndex(o, size) : o \in visited}
        bad == \E i \in hit : i < 0 \/ i >= size
        newChars == [i \in 1..size |->
                        IF (i - 1) \in hit THEN applyStyle(block.chars[i], style)
                        ELSE block.chars[i]]
    IN  [content |-> [content EXCEPT ![bi].chars = newChars],
         error   |-> bad]

----------------------------------------------------------------------------
(* Matching strategies: external, deterministic functions of the block.    *)
(*   [kind |-> "fixed", start, end] reports (start, end) for every block,  *)
(*       whatever its text: covers out-of-range and reversed offsets;      *)
(*   [kind |-> "regex", delim] is findWithRegex(/D.+D/g, block, callback)  *)
(*       of the README: greedy, so the one match runs from the first       *)
(*       delimiter that has a later delimiter at distance >= 2 to the last *)
(*       delimiter of the text;                                            *)
(*   [kind |-> "throws", start] throws on a block whose text has at least  *)
(*       `start` characters and reports nothing on the others.             *)

regexMatches(delim, text) ==
    LET at == {i \in 1..Len(text) : text[i] = delim}
        opens == {i \in at : \E j \in at : j >= i + 2}
    IN  IF opens = {} THEN <<>>
        ELSE LET first == CHOOSE i \in opens : \A k \in opens : i <= k
                 lastD == CHOOSE j \in at : \A k \in at : k <= j
             IN  <<[start |-> first - 1, end |-> lastD]>>

\* decorator.strategy(block, callback): the (start, end) pairs the callback receives
strategyReports(strategy, block) ==
    IF strategy.kind = "fixed"
    THEN <<[start |-> strategy.start, end |-> strategy.end]>>
    ELSE IF strategy.kind = "regex"
    THEN regexMatches(strategy.delim, block.text)
    ELSE <<>>

\* decorator.strategy(block, callback) throws
strategyThrows(strategy, block) ==
    strategy.kind = "throws" /\ Len(block.text) >= strategy.start

----------------------------------------------------------------------------
(* Range Collector *)

RECURSIVE collectBlocks(_, _, _)
\* blockMap.forEach(block => decorator.strategy(block, cb(block.getKey())))
collectBlocks(decorator, blocks, i) ==
    IF i > Len(blocks) THEN <<>>
    ELSE LET reports == strategyReports(decorator.strategy, blocks[i])
             here == [k \in 1..Len(reports) |->
                        [blockKey |-> blocks[i].key,
                         start    |-> reports[k].start,
                         end      |-> reports[k].end,
                         styles   |-> decorator.styles]]
         IN  here \o collectBlocks(decorator, blocks, i + 1)

getChangesToApplyForState(decorator, editorState) ==
    collectBlocks(decorator, editorState.blocks, 1)

\* some strategy call of the collection throws: nothing catches it on the way up
collectionThrows(decs, editorState) ==
    \E d \in 1..Len(decs) : \E b \in 1..Len(editorState.blocks) :
        strategyThrows(decs[d].strategy, editorState.blocks[b])

----------------------------------------------------------------------------
(* Style Reconciler *)

\* limitSelection without the Math.min on the focus offset
limitSelection_noUpperLimit(selection, block) ==
    [selection EXCEPT !.anchor = Max(selection.anchor, 0)]

limitSelection(selection, block) ==
    [selection EXCEPT !.anchor = Max(selection.anchor, 0),
                      !.focus  = Min(Len(block.text), selection.focus)]

createSelectionForChange(change) ==
    [key |-> change.blockKey, anchor |-> change.start, focus |-> change.end]

\* needToChange without the comparison: any non-empty slice counts
needToChange_nonEmpty(content, selection, styles) ==
    Len(slice(getBlockForKey(content, selection.key).chars,
              selection.anchor, selection.focus)) > 0

\* !stylesInBlock.equals(Repeat(List(styles), stylesInBlock.size)): some character
\* of the slice has a style list other than the whole styles array of the change
needToChange(content, selection, styles) ==
    LET block == getBlockForKey(content, selection.key)
        stylesInBlock == slice(block.chars, selection.anchor, selection.focus)
    IN  \E i \in 1..Len(stylesInBlock) : stylesInBlock[i] # styles

\* one callback of styles.reduce: the comparison reads `content`, the value before
\* the first style of this change, for every style; `step` is the result of
\* Modifier.applyInlineStyle on the accumulator
styleStep(acc, step, need) ==
    [acc EXCEPT !.content = step.content,
                !.applied = acc.applied + (IF need THEN 1 ELSE 0),
                !.touched = TRUE,
                !.error   = acc.error \/ step.error]

RECURSIVE reduceStyles(_, _, _, _, _)
\* styles.reduce from the k-th style on
reduceStyles(content, acc, selection, styles, k) ==
    IF k > Len(styles) THEN acc
    ELSE Const(styleStep(acc,
                         ModifierApplyInlineStyle(acc.content, selection, styles[k]),
                         needToChange(content, selection, styles)),
               LAMBDA next : reduceStyles(content, next, selection, styles, k + 1))

\* applyInlineStyles(content, selection, styles, incrementApplied), on top of the
\* running totals `acc` of the fold
applyInlineStyles(acc, selection, styles) ==
    reduceStyles(acc.content, acc, selection, styles, 1)

\* one callback of changes.reduce in applyChangesToState, given the selection
\* limitSelection returned; sels records it, after is the content's selectionAfter
changeStep(acc, sel, styles) ==
    [applyInlineStyles(acc, sel, styles) EXCEPT
        !.sels = Append(acc.sels, sel),
        !.after = IF Len(styles) > 0 THEN sel ELSE acc.after]

RECURSIVE reduceChanges(_, _, _)
\* changes.reduce from the i-th change on
reduceChanges(changes, acc, i) ==
    IF i > Len(changes) THEN acc
    ELSE Const(limitSelection(createSelectionForChange(changes[i]),
                              getBlockForKey(acc.content, changes[i].blockKey)),
               LAMBDA sel :
                   Const(changeStep(acc, sel, changes[i].styles),
                         LAMBDA next : reduceChanges(changes, next, i + 1)))

\* EditorState.acceptSelection: sets the selection, drops the style override
acceptSelection(editorState, selection) ==
    [editorState EXCEPT !.selection = selection, !.override = NoOverride]

\* EditorState.setInlineStyleOverride
setInlineStyleOverride(editorState, override) ==
    [editorState EXCEPT !.override = override]

\* EditorState.push: the same content object gives the same editor state; a new
\* one becomes current, the old one goes on the undo stack, the selection becomes
\* the content's selectionAfter and the style override is dropped
push(editorState, content, isNew, selectionAfter) ==
    IF ~isNew THEN editorState
    ELSE [blocks    |-> content,
          selection |-> selectionAfter,
          override  |-> NoOverride,
          undo      |-> editorState.undo + 1]

\* EditorState.setInlineStyleOverride(editorState, [])
resetStateToUnstyled(editorState) == setInlineStyleOverride(editorState, Override(<<>>))

\* applyChangesToState returning maybeTheNewState whatever the counter says
stateAfterFold_alwaysNew(fold, changes, state) ==
    [ret            |-> resetStateToUnstyled(
                            acceptSelection(push(state, fold.content, fold.touched, fold.after),
                                            state.selection)),
     changesApplied |-> fold.applied,
     changes        |-> changes,
     sels           |-> fold.sels,
     error          |-> fold.error]

\* the tail of applyChangesToState, given the result `fold` of its changes.reduce
stateAfterFold(fold, changes, state) ==
    LET maybeTheNewState ==
            resetStateToUnstyled(
                acceptSelection(push(state, fold.content, fold.touched, fold.after),
                                state.selection))
    IN  [ret            |-> IF fold.applied = 0 THEN state ELSE maybeTheNewState,
         changesApplied |-> fold.applied,
         changes        |-> changes,
         sels           |-> fold.sels,
         error          |-> fold.error]

applyChangesToState(changes, state) ==
    Const(reduceChanges(changes,
                        [content |-> state.blocks, applied |-> 0,
                         touched |-> FALSE, error |-> FALSE,
                         sels |-> <<>>, after |-> state.selection],
                        1),
          LAMBDA fold : stateAfterFold(fold, changes, state))

----------------------------------------------------------------------------
(* Convergence Driver *)

\* the reduce callback returning changesInDecorator instead of the concatenation
reduceDecorators_lastOnly(decs, editorState, i) ==
    IF i > Len(decs) THEN <<>>
    ELSE getChangesToApplyForState(decs[Len(decs)], editorState)

RECURSIVE reduceDecorators(_, _, _)
\* decorators.reduce((changes, decorator) => changes.concat(...), [])
reduceDecorators(decs, editorState, i) ==
    IF i > Len(decs) THEN <<>>
    ELSE getChangesToApplyForState(decs[i], editorState)
            \o reduceDecorators(decs, editorState, i + 1)

\* a pass the exception of a strategy left: no value, nothing applied
Thrown ==
    [ret |-> Undefined, changesApplied |-> 0, changes |-> <<>>, sels |-> <<>>, error |-> TRUE]

\* syncExecuteStrategies with a try/catch around the collection that gives no changes
syncExecuteStrategies_swallow(decs, state) ==
    Const(IF collectionThrows(decs, state) THEN <<>> ELSE reduceDecorators(decs, state, 1),
          LAMBDA changesToApply : applyChangesToState(changesToApply, state))

\* every caller's getEditorState is a constant function, so both fetches give `state`
syncExecuteStrategies(decs, state) ==
    IF collectionThrows(decs, state) THEN Thrown
    ELSE Const(reduceDecorators(decs, state, 1),
               LAMBDA changesToApply : applyChangesToState(changesToApply, state))

\* a call that threw has no value
valueOrThrow(result) == IF result.error THEN [result EXCEPT !.out = Undefined] ELSE result

\* the value of `syncExecuteStrategies(...) || fallback`: an EditorState is truthy
orElse(value, fallback) == IF value = Undefined THEN fallback ELSE value

\* plugin.onChange(state)
\* onChange returning newState without clearing the style override
onChangeResult_keepOverride(pass, state) == pass @@ [out |-> orElse(pass.ret, state)]

\* newState = pass.ret || state; EditorState.setInlineStyleOverride(newState, OrderedSet([]))
onChangeResult(pass, state) ==
    pass @@ [out |-> setInlineStyleOverride(orElse(pass.ret, state), Override(<<>>))]

onChange(decs, state) ==
    Const(syncExecuteStrategies(decs, state),
          LAMBDA pass : valueOrThrow(onChangeResult(pass, state)))

----------------------------------------------------------------------------
(* Deferred reconciliation and Structural-Edit Guard *)

\* EditorState.getCurrentInlineStyle: the override when there is one, else the
\* style at the selection (collapsed: the character before the caret, or the
\* first one at offset 0; otherwise the character just inside the selection),
\* looking upward for the last character of an earlier non-empty block
lookUpwardForInlineStyle(blocks, bi) ==
    LET above == {j \in 1..(bi - 1) : Len(blocks[j].text) > 0}
    IN  IF above = {} THEN <<>>
        ELSE LET j == CHOOSE x \in above : \A y \in above : y <= x
             IN  blocks[j].chars[Len(blocks[j].chars)]

getCurrentInlineStyle(editorState) ==
    LET sel == editorState.selection
        bi == blockIndex(editorState.blocks, sel.key)
        block == editorState.blocks[bi]
        len == Len(block.text)
    IN  IF editorState.override.present THEN editorState.override.styles
        ELSE IF sel.anchor = sel.focus
        THEN IF sel.anchor > 0 THEN block.chars[sel.anchor]
             ELSE IF len > 0 THEN block.chars[1]
             ELSE lookUpwardForInlineStyle(editorState.blocks, bi)
        ELSE IF sel.anchor < len THEN block.chars[sel.anchor + 1]
             ELSE IF sel.anchor > 0 THEN block.chars[sel.anchor]
             ELSE lookUpwardForInlineStyle(editorState.blocks, bi)

\* EditorState.forceSelection: sets the selection, drops the style override
forceSelection(editorState, selection) ==
    [editorState EXCEPT !.selection = selection, !.override = NoOverride]

\* a setTimeout callback waiting in the queue
stripTask(origin) == [type |-> "strip", origin |-> origin, state |-> Undefined]
execTask(origin, state) == [type |-> "exec", origin |-> origin, state |-> state]

\* checkIfWeNeedToStripStyles without the test of the current inline style
checkIfWeNeedToStripStyles_always(current, origin) ==
    [returned |-> "true", scheduled |-> <<stripTask(origin)>>]

\* checkIfWeNeedToStripStyles(callbacks, afterwards): the value returned and the
\* tasks it adds to the timer queue; callbacks.getEditorState() is the host's state
checkIfWeNeedToStripStyles(current, origin) ==
    LET selectedState == forceSelection(current, current.selection)
    IN  IF Len(getCurrentInlineStyle(selectedState)) > 0
        THEN [returned |-> "true", scheduled |-> <<stripTask(origin)>>]
        ELSE [returned |-> "undefined", scheduled |-> <<>>]

\* stripStyles re-inserting each block's text with the styles it has
strippedContent_keepStyles(blocks) == blocks

\* the blockMap.reduce of stripStyles: Modifier.replaceText(content, allBlock,
\* block.getText(), OrderedSet([])) gives every character an empty style set;
\* on an empty block it returns the content it was given
strippedContent(blocks) ==
    [i \in 1..Len(blocks) |->
        [blocks[i] EXCEPT !.chars = [k \in 1..Len(blocks[i].text) |-> <<>>]]]

\* the selectionAfter of the last replaceText: the caret after the inserted text
strippedSelectionAfter(editorState) ==
    LET nonEmpty == {i \in 1..Len(editorState.blocks) : Len(editorState.blocks[i].text) > 0}
    IN  IF nonEmpty = {} THEN editorState.selection
        ELSE LET i == CHOOSE x \in nonEmpty : \A y \in nonEmpty : y <= x
                 b == editorState.blocks[i]
             IN  [key |-> b.key, anchor |-> Len(b.text), focus |-> Len(b.text)]

\* stripStyles without EditorState.acceptSelection(..., state.getSelection())
stripStyles_pushOnly(state) ==
    push(state, strippedContent(state.blocks),
         \E i \in 1..Len(state.blocks) : Len(state.blocks[i].text) > 0,
         strippedSelectionAfter(state))

\* stripStyles(callbacks, afterwards): the editor state handed to afterwards
stripStyles(state) ==
    LET isNew == \E i \in 1..Len(state.blocks) : Len(state.blocks[i].text) > 0
    IN  acceptSelection(push(state, strippedContent(state.blocks), isNew,
                             strippedSelectionAfter(state)),
                        state.selection)

\* the timer callback handing getEditorState() to setEditorState whatever the pass gave
executeResult_inputOnly(pass, state) == pass @@ [out |-> state]

\* the timer callback of executeStrategies(decorators, callbacks), where
\* callbacks.getEditorState is () => state: the pass and setEditorState's argument
executeResult(pass, state) == pass @@ [out |-> orElse(pass.ret, state)]

executeStrategies(decs, state) ==
    Const(syncExecuteStrategies(decs, state),
          LAMBDA pass : valueOrThrow(executeResult(pass, state)))

----------------------------------------------------------------------------
(* The host editor: the editor states it may hand to onChange.  Every host *)
(* update goes through the plugin's onChange hook.                         *)

BlockIndices(st) == 1..Len(st.blocks)

\* the caret moves (EditorState.acceptSelection by the host)
Selected(st) ==
    {acceptSelection(st, [key |-> st.blocks[t[1]].key, anchor |-> t[2], focus |-> t[2]]) :
        t \in {u \in BlockIndices(st) \X (0..MaxCaret) : u[2] <= Len(st.blocks[u[1]].text)}}

\* RichUtils.toggleInlineStyle at a caret: the override becomes the toggled style
Toggled(st) ==
    IF st.selection.anchor # st.selection.focus THEN {}
    ELSE {setInlineStyleOverride(st,
              LET cur == getCurrentInlineStyle(st)
              IN  Override(IF s \in SeqRange(cur)
                           THEN SelectSeq(cur, LAMBDA x : x # s)
                           ELSE Append(cur, s))) : s \in {"BOLD"}}

insertAt(seq, pos, x) == SubSeq(seq, 1, pos) \o <<x>> \o SubSeq(seq, pos + 1, Len(seq))
removeAt(seq, pos) == SubSeq(seq, 1, pos - 1) \o SubSeq(seq, pos + 1, Len(seq))

\* typing a character at the caret: it takes the current inline style
Inserted(st) ==
    LET sel == st.selection
        bi == blockIndex(st.blocks, sel.key)
    IN  IF sel.anchor # sel.focus \/ Len(st.blocks[bi].text) >= MaxLen THEN {}
        ELSE {[blocks    |-> [st.blocks EXCEPT
                                ![bi].text  = insertAt(@, sel.anchor, ch),
                                ![bi].chars = insertAt(@, sel.anchor, getCurrentInlineStyle(st))],
               selection |-> [sel EXCEPT !.anchor = @ + 1, !.focus = @ + 1],
               override  |-> NoOverride,
               undo      |-> st.undo + 1] : ch \in Alphabet}

\* the default backspace at a caret: the character before it goes
Deleted(st) ==
    LET sel == st.selection
        bi == blockIndex(st.blocks, sel.key)
    IN  IF sel.anchor # sel.focus \/ sel.anchor = 0 THEN {}
        ELSE {[blocks    |-> [st.blocks EXCEPT
                                ![bi].text  = removeAt(@, sel.anchor),
                                ![bi].chars = removeAt(@, sel.anchor)],
               selection |-> [sel EXCEPT !.anchor = @ - 1, !.focus = @ - 1],
               override  |-> NoOverride,
               undo      |-> st.undo + 1]}

\* the default return at a caret: the block is split, the caret opens the new block
Split(st) ==
    LET sel == st.selection
        bi == blockIndex(st.blocks, sel.key)
        b == st.blocks[bi]
        used == {st.blocks[i].key : i \in BlockIndices(st)}
    IN  IF sel.anchor # sel.focus \/ Len(st.blocks) >= MaxBlocks THEN {}
        ELSE LET free == (1..MaxBlocks) \ used
                 newKey == CHOOSE k \in free : \A j \in free : k <= j
                 head == [key |-> b.key, text |-> SubSeq(b.text, 1, sel.anchor),
                          chars |-> SubSeq(b.chars, 1, sel.anchor)]
                 tail == [key |-> newKey,
                          text |-> SubSeq(b.text, sel.anchor + 1, Len(b.text)),
                          chars |-> SubSeq(b.chars, sel.anchor + 1, Len(b.chars))]
             IN  {[blocks    |-> SubSeq(st.blocks, 1, bi - 1) \o <<head, tail>>
                                    \o SubSeq(st.blocks, bi + 1, Len(st.blocks)),
                   selection |-> [key |-> newKey, anchor |-> 0, focus |-> 0],
                   override  |-> NoOverride,
                   undo      |-> st.undo + 1]}

----------------------------------------------------------------------------
(* Observation of the last plugin operation *)

NoPass == [ret |-> Undefined, changesApplied |-> 0, changes |-> <<>>,
           sels |-> <<>>, error |-> FALSE, out |-> Undefined]

\* op: the operation; hostBefore: for a deferred task, what getEditorState() of the
\* host returned when it ran; in: the editor state the operation worked on; pass fields: the reconciliation it
\* ran; guard: what checkIfWeNeedToStripStyles returned (the hooks discard it and
\* themselves return undefined); second: the pass ran on the content
\* the previous pass produced
Observed(op, hostBefore, in, pass, guard, second) ==
    pass @@ [op |-> op, hostBefore |-> hostBefore, in |-> in,
             guard |-> guard, second |-> second]

IsPass(l) == l.op \in {"onChange", "exec"}

SecondPass(input) == IsPass(last) /\ ~last.error /\ last.out.blocks = input.blocks

\* the undo entries the pending timers may still push: a strip pushes the stripped
\* content and the reconciliation after it the restyled one; the reconciliation
\* works on the state it was scheduled with
Reserve(ts) == IF \E i \in 1..Len(ts) : ts[i].type = "strip" THEN 2 ELSE 0

----------------------------------------------------------------------------
(* Actions *)

\* the host calls plugin.onChange(input) and keeps what it returns
OnChange(input) ==
    \E r \in {onChange(decorators, input)} :
        /\ input.undo + Reserve(timers) <= MaxUndo
        /\ IF r.error THEN TRUE ELSE r.out.undo + Reserve(timers) <= MaxUndo
        /\ host' = IF r.error THEN host ELSE r.out
        /\ last' = Observed("onChange", Undefined, input, r, "undefined", SecondPass(input))
        /\ UNCHANGED <<decorators, timers>>

\* onChange after a change that leaves the text alone (or after none at all)
OnChangeSameText == \E input \in {host} \cup Selected(host) \cup Toggled(host) : OnChange(input)

\* onChange after a text edit of the host
OnChangeEdited == \E input \in Inserted(host) \cup Deleted(host) \cup Split(host) : OnChange(input)

\* plugin.handleKeyCommand(command, callbacks)
HandleKeyCommand ==
    \E command \in {"backspace", "bold"} :
        \E g \in {IF command = "backspace"
                  THEN checkIfWeNeedToStripStyles(host, "handleKeyCommand")
                  ELSE [returned |-> "undefined", scheduled |-> <<>>]} :
            /\ Len(timers) + Len(g.scheduled) <= MaxTimers
            /\ host.undo + Reserve(g.scheduled) <= MaxUndo
            /\ timers' = timers \o g.scheduled
            /\ last' = Observed("handleKeyCommand", Undefined, host, NoPass, g.returned, FALSE)
                            @@ [command |-> command]
            /\ UNCHANGED <<decorators, host>>

\* plugin.handleReturn(e, callbacks)
HandleReturn ==
    \E g \in {checkIfWeNeedToStripStyles(host, "handleReturn")} :
        /\ Len(timers) + Len(g.scheduled) <= MaxTimers
        /\ host.undo + Reserve(g.scheduled) <= MaxUndo
        /\ timers' = timers \o g.scheduled
        /\ last' = Observed("handleReturn", Undefined, host, NoPass, g.returned, FALSE)
        /\ UNCHANGED <<decorators, host>>

\* the event loop runs the oldest timer: () => stripStyles(callbacks, afterwards);
\* afterwards calls executeStrategies, which sets the next timer
RunStrip ==
    /\ timers # <<>>
    /\ Head(timers).type = "strip"
    /\ \E stripped \in {stripStyles(host)} :
           /\ timers' = Append(Tail(timers), execTask(Head(timers).origin, stripped))
           /\ last' = Observed("strip", host, host, [NoPass EXCEPT !.out = stripped],
                               "undefined", FALSE)
    /\ UNCHANGED <<decorators, host>>

\* the event loop runs the oldest timer: the callback of executeStrategies
RunExec ==
    /\ timers # <<>>
    /\ Head(timers).type = "exec"
    /\ \E r \in {executeStrategies(decorators, Head(timers).state)} :
           /\ host' = IF r.error THEN host ELSE r.out
           /\ last' = Observed("exec", host, Head(timers).state, r, "undefined",
                               SecondPass(Head(timers).state))
    /\ timers' = Tail(timers)
    /\ UNCHANGED decorators

----------------------------------------------------------------------------
(* Configurations *)

\* a fresh single-block document without styles, caret at the start
FreshState(text) ==
    [blocks    |-> <<[key |-> 1, text |-> text, chars |-> [i \in 1..Len(text) |-> <<>>]]>>,
     selection |-> [key |-> 1, anchor |-> 0, focus |-> 0],
     override  |-> NoOverride,
     undo      |-> 0]

Fixed(s, e) == [kind |-> "fixed", start |-> s, end |-> e, delim |-> ""]
Regex(d) == [kind |-> "regex", start |-> 0, end |-> 0, delim |-> d]
Throwing(n) == [kind |-> "throws", start |-> n, end |-> 0, delim |-> ""]

Rule(strategy, styles) == [strategy |-> strategy, styles |-> styles]

\* the rule lists of the full model
Decorators ==
    {<<Rule(Regex("*"), <<"BOLD">>)>>,
     <<Rule(Fixed(0, 1), <<"BOLD">>)>>,
     <<Rule(Fixed(0, 2), <<"BOLD">>), Rule(Fixed(1, 3), <<"UNDERLINE">>)>>,
     <<Rule(Fixed(-1, 1), <<"BOLD", "UNDERLINE">>)>>,
     <<Rule(Fixed(0, 1), <<"BOLD">>), Rule(Throwing(MaxLen), <<"UNDERLINE">>)>>}

\* the documents the host starts from: star-delimited texts of each length up to
\* maxLen, fresh, and the longest also loaded with every character underlined
DelimitedText(n) == [i \in 1..n |-> IF i = 1 \/ i = n THEN "*" ELSE "a"]

StyledState(text, style) ==
    [FreshState(text) EXCEPT !.blocks[1].chars = [i \in 1..Len(text) |-> style]]

StartStates(maxLen) ==
    {FreshState(DelimitedText(n)) : n \in 0..maxLen}
        \cup {StyledState(DelimitedText(maxLen), <<"UNDERLINE">>)}

Init ==
    /\ decorators \in Decorators
    /\ host \in StartStates(MaxLen)
    /\ timers = <<>>
    /\ last = Observed("init", Undefined, host, NoPass, "undefined", FALSE)

\* the rule lists a single pass is tried with: one rule with any range around the
\* text, or the README's regex; then possibly a second rule with any range
Offsets == (0 - 1)..(MaxText + 1)
StyleLists == {<<"BOLD">>, <<"UNDERLINE">>, <<"BOLD", "UNDERLINE">>}

FirstRules ==
    {Rule(Fixed(s, e), st) : s \in Offsets, e \in Offsets, st \in StyleLists}
        \cup {Rule(Regex("*"), <<"BOLD">>)}
SecondRules == {Rule(Fixed(s, e), <<"UNDERLINE">>) : s \in Offsets, e \in Offsets}

ReconDecorators ==
    {<<r>> : r \in FirstRules} \cup {<<r1, r2>> : r1 \in FirstRules, r2 \in SecondRules}

InitRecon ==
    /\ decorators \in ReconDecorators
    /\ host \in StartStates(MaxText)
    /\ timers = <<>>
    /\ last = Observed("init", Undefined, host, NoPass, "undefined", FALSE)

\* the host calls onChange again with the state it holds (a re-render)
Reconcile == OnChange(host)

NextRecon == Reconcile

\* reconciliation passes alone, over many documents and rule lists
SpecRecon == InitRecon /\ [][NextRecon]_vars

\* the README's two rules on the scenario text
ScenarioDecorators ==
    <<Rule(Regex("*"), <<"BOLD">>), Rule(Regex("~"), <<"UNDERLINE">>)>>

InitScenario ==
    /\ decorators = ScenarioDecorators
    /\ host = FreshState(ScenarioText)
    /\ timers = <<>>
    /\ last = Observed("init", Undefined, host, NoPass, "undefined", FALSE)

\* the scenario: the plugin's hooks and timers with no text edit by the host
NextScenario ==
    \/ OnChangeSameText
    \/ HandleKeyCommand
    \/ HandleReturn
    \/ RunStrip
    \/ RunExec

SpecScenario == InitScenario /\ [][NextScenario]_vars

Next ==
    \/ OnChangeSameText
    \/ OnChangeEdited
    \/ HandleKeyCommand
    \/ HandleReturn
    \/ RunStrip
    \/ RunExec

Spec == Init /\ [][Next]_vars

\* the rule lists whose strategies never throw
DeferredDecorators ==
    {d \in Decorators : \A i \in 1..Len(d) : d[i].strategy.kind # "throws"}

InitDeferred ==
    /\ decorators \in DeferredDecorators
    /\ host \in StartStates(MaxLen)
    /\ timers = <<>>
    /\ last = Observed("init", Undefined, host, NoPass, "undefined", FALSE)

\* the hooks and timers under an event loop that runs every pending setTimeout
\* callback
SpecDeferred ==
    InitDeferred /\ [][Next]_vars /\ WF_vars(RunStrip) /\ WF_vars(RunExec)

----------------------------------------------------------------------------
(* Vocabulary of the properties *)

\* offset o of a block of length len lies in the clamped range of report r
Covers(r, o, len) == Max(r.start, 0) <= o /\ o < Min(len, r.end)

\* the styles of rule `rule` that reach offset o of `block`
RuleStylesAt(rule, block, o) ==
    IF \E k \in 1..Len(strategyReports(rule.strategy, block)) :
            Covers(strategyReports(rule.strategy, block)[k], o, Len(block.text))
    THEN SeqRange(rule.styles) ELSE {}

\* the union of the styles of all rules whose clamped matches cover offset o
CoveringStyles(decs, block, o) ==
    UNION {RuleStylesAt(decs[d], block, o) : d \in 1..Len(decs)}

\* the style set of the character at offset o of block b
StyleSetAt(st, b, o) == SeqRange(st.blocks[b].chars[o + 1])

\* keys and texts of the blocks, in order
TextOf(st) == [b \in 1..Len(st.blocks) |-> <<st.blocks[b].key, st.blocks[b].text>>]

Offs(st, b) == 0..(Len(st.blocks[b].text) - 1)

AllUnstyled(st) == \A b \in 1..Len(st.blocks) : \A o \in Offs(st, b) : StyleSetAt(st, b, o) = {}

\* `after` has the keys and texts of `before`, and every character carries what it
\* carried in `before` plus the styles of the rules covering it
Reconciled(decs, before, after) ==
    /\ TextOf(after) = TextOf(before)
    /\ \A b \in 1..Len(before.blocks) : \A o \in Offs(before, b) :
          StyleSetAt(after, b, o)
            = StyleSetAt(before, b, o) \cup CoveringStyles(decs, before.blocks[b], o)

SameStyleSets(before, after) ==
    /\ TextOf(after) = TextOf(before)
    /\ \A b \in 1..Len(before.blocks) : \A o \in Offs(before, b) :
          StyleSetAt(after, b, o) = StyleSetAt(before, b, o)

\* no strategy reports a range on any block of st
NoReports(decs, st) ==
    \A d \in 1..Len(decs) : \A b \in 1..Len(st.blocks) :
        strategyReports(decs[d].strategy, st.blocks[b]) = <<>>

\* every report of every strategy on st is a range inside the block's text
ReportsInsideText(decs, st) ==
    \A d \in 1..Len(decs) : \A b \in 1..Len(st.blocks) :
        \A k \in 1..Len(strategyReports(decs[d].strategy, st.blocks[b])) :
            LET r == strategyReports(decs[d].strategy, st.blocks[b])[k]
            IN  0 <= r.start /\ r.start <= r.end /\ r.end <= Len(st.blocks[b].text)

\* the state a finished pass left: last.ret is what syncExecuteStrategies returned
PassDone == IsPass(last) /\ ~last.error

----------------------------------------------------------------------------
(* C1 *)

\* C1: a pass that runs on the content the previous pass produced, with no text
\* edit in between, applies no change (changesApplied = 0).  Stated for the
\* strategies whose reports lie inside the text, where no clamping is involved.
Idempotence ==
    (PassDone /\ last.second /\ ReportsInsideText(decorators, last.in))
        => last.changesApplied = 0

----------------------------------------------------------------------------
(* C2 *)

\* C2: when a pass leaves every character's style set as it was, the editor state
\* it returns is the one it was given (no new content, no new undo entry).  Stated
\* for the strategies whose reports lie inside the text.
NoNewVersionWithoutStyleChange ==
    (PassDone /\ SameStyleSets(last.in, last.ret) /\ ReportsInsideText(decorators, last.in))
        => last.ret = last.in

----------------------------------------------------------------------------
(* C3 *)

\* C3 as stated: when no strategy reports a range, the pass returns nothing.
NoReportsReturnsNothing ==
    (PassDone /\ NoReports(decorators, last.in)) => last.ret = Undefined

\* C3 amended: when no strategy reports a range, the pass counts no change and
\* returns the very editor state it was given: same content, selection, style
\* override and undo stack.
NoReportsReturnsInput ==
    (PassDone /\ NoReports(decorators, last.in))
        => (last.changesApplied = 0 /\ last.ret = last.in)

\* a pass has run on a document with text on which no strategy reported a range
NoReportsPassed ==
    /\ PassDone
    /\ NoReports(decorators, last.in)
    /\ \E b \in 1..Len(last.in.blocks) : Len(last.in.blocks[b].text) > 0

----------------------------------------------------------------------------
(* C4 *)

\* C4: onChange returns the reconciled document when changes were applied and
\* otherwise a state with the content, selection and undo stack of its input; the
\* style override of the returned state is empty in both cases.
OnChangeContract ==
    (last.op = "onChange" /\ ~last.error) =>
        /\ last.out.override = Override(<<>>)
        /\ last.out.selection = last.in.selection
        /\ last.changesApplied = 0 =>
              (last.out.blocks = last.in.blocks /\ last.out.undo = last.in.undo)
        /\ last.changesApplied > 0 =>
              (Reconciled(decorators, last.in, last.out) /\ last.out.undo = last.in.undo + 1)

\* onChange was given a state with a pending style override, applied changes and
\* returned the restyled document
OnChangeClearedOverride ==
    /\ last.op = "onChange"
    /\ last.in.override.present
    /\ last.in.override.styles # <<>>
    /\ last.changesApplied > 0
    /\ ~SameStyleSets(last.in, last.out)

----------------------------------------------------------------------------
(* C5 *)

BlockLen(st, key) == Len(getBlockForKey(st.blocks, key).text)

\* C5: a change that starts below 0 is applied from offset 0 and one that ends
\* beyond the text is applied up to the text length; the styles reach every
\* character of the clamped range, and the pass meets no missing character.
Clamping ==
    IsPass(last) =>
        /\ ~last.error
        /\ Len(last.sels) = Len(last.changes)
        /\ \A k \in 1..Len(last.changes) :
              LET change == last.changes[k]
                  len == BlockLen(last.in, change.blockKey)
                  b == blockIndex(last.in.blocks, change.blockKey)
              IN  /\ change.start < 0 => last.sels[k].anchor = 0
                  /\ change.end > len => last.sels[k].focus = len
                  /\ \A o \in last.sels[k].anchor..(last.sels[k].focus - 1) :
                        /\ 0 <= o /\ o < len
                        /\ SeqRange(change.styles) \subseteq StyleSetAt(last.out, b, o)

\* a pass has applied a change reaching beyond both ends of a non-empty text
ClampedBothEnds ==
    /\ PassDone
    /\ \E k \in 1..Len(last.changes) :
          /\ last.changes[k].start < 0
          /\ last.changes[k].end > BlockLen(last.in, last.changes[k].blockKey)
          /\ BlockLen(last.in, last.changes[k].blockKey) > 0
          /\ last.changesApplied > 0

----------------------------------------------------------------------------
(* C6 *)

\* C6: every selection limitSelection produced in a pass satisfies
\* 0 <= anchorOffset <= focusOffset <= length of the block's text.
LimitedSelectionInBounds ==
    IsPass(last) =>
        \A k \in 1..Len(last.sels) :
            /\ 0 <= last.sels[k].anchor
            /\ last.sels[k].anchor <= last.sels[k].focus
            /\ last.sels[k].focus <= BlockLen(last.in, last.sels[k].key)

----------------------------------------------------------------------------
(* C7 *)

\* C7: after a pass with two rules, a character inside the clamped ranges of both
\* carries the styles of both, a character inside the range of one carries that
\* rule's styles, and each carries nothing beyond these and what it had before.
MultiRuleOverlap ==
    (PassDone /\ Len(decorators) = 2) =>
        \A b \in 1..Len(last.in.blocks) : \A o \in Offs(last.in, b) :
            LET block == last.in.blocks[b]
                s1 == RuleStylesAt(decorators[1], block, o)
                s2 == RuleStylesAt(decorators[2], block, o)
            IN  /\ s1 \subseteq StyleSetAt(last.out, b, o)
                /\ s2 \subseteq StyleSetAt(last.out, b, o)
                /\ StyleSetAt(last.out, b, o) = StyleSetAt(last.in, b, o) \cup s1 \cup s2

\* a pass has run two rules with different style sets whose ranges share an
\* unstyled character, next to a character only one of them covers
OverlapApplied ==
    /\ PassDone
    /\ Len(decorators) = 2
    /\ SeqRange(decorators[1].styles) # SeqRange(decorators[2].styles)
    /\ \E b \in 1..Len(last.in.blocks) : \E o, p \in Offs(last.in, b) :
          /\ StyleSetAt(last.in, b, o) = {}
          /\ RuleStylesAt(decorators[1], last.in.blocks[b], o) # {}
          /\ RuleStylesAt(decorators[2], last.in.blocks[b], o) # {}
          /\ RuleStylesAt(decorators[1], last.in.blocks[b], p) # {}
          /\ RuleStylesAt(decorators[2], last.in.blocks[b], p) = {}

----------------------------------------------------------------------------
(* C8 *)

\* C8: the deferred strip hands on a document with the keys and texts of the one
\* it read and no style on any character; the deferred reconciliation works on
\* such a stripped document, and the document it gives to setEditorState has the
\* same keys and texts and, on each character, exactly the styles of the rules
\* whose clamped matches on the stripped text cover it.
StripAndRecompute ==
    /\ last.op = "strip" =>
          /\ TextOf(last.out) = TextOf(last.in)
          /\ AllUnstyled(last.out)
          /\ timers # <<>>
          /\ timers[Len(timers)] = execTask(timers[Len(timers)].origin, last.out)
    /\ (last.op = "exec" /\ ~last.error) =>
          /\ AllUnstyled(last.in)
          /\ host = last.out
          /\ TextOf(last.out) = TextOf(last.in)
          /\ \A b \in 1..Len(last.in.blocks) : \A o \in Offs(last.in, b) :
                StyleSetAt(last.out, b, o) = CoveringStyles(decorators, last.in.blocks[b], o)

\* the deferred reconciliation gave the host a restyled document in which a
\* character styled before the strip carries no style
RecomputedAfterStrip ==
    /\ last.op = "exec"
    /\ last.changesApplied > 0
    /\ \E b \in 1..Len(last.out.blocks) : \E o \in Offs(last.out, b) :
          /\ StyleSetAt(last.out, b, o) = {}
          /\ b \in 1..Len(last.hostBefore.blocks)
          /\ o \in Offs(last.hostBefore, b)
          /\ StyleSetAt(last.hostBefore, b, o) # {}

----------------------------------------------------------------------------
(* C9 *)

\* C9: on the unstyled scenario text the two rules report [0,6) and [11,18); the
\* first pass counts 2 changes and leaves BOLD alone on offsets 0..5, UNDERLINE
\* alone on offsets 11..17 and nothing elsewhere; a pass on that result counts 0.
Scenario ==
    /\ strategyReports(decorators[1].strategy, last.in.blocks[1]) = <<[start |-> 0, end |-> 6]>>
    /\ strategyReports(decorators[2].strategy, last.in.blocks[1]) = <<[start |-> 11, end |-> 18]>>
    /\ (PassDone /\ AllUnstyled(last.in)) =>
          /\ last.changesApplied = 2
          /\ \A o \in 0..17 :
                last.ret.blocks[1].chars[o + 1] =
                    IF o < 6 THEN <<"BOLD">>
                    ELSE IF o >= 11 THEN <<"UNDERLINE">>
                    ELSE <<>>
    /\ (PassDone /\ last.second) => (last.changesApplied = 0 /\ last.ret = last.in)

\* a second pass has run on the styled scenario text
ScenarioSecondPass ==
    /\ PassDone
    /\ last.second
    /\ last.in.blocks[1].text = ScenarioText
    /\ last.in.blocks[1].chars[1] = <<"BOLD">>
    /\ last.in.blocks[1].chars[18] = <<"UNDERLINE">>

----------------------------------------------------------------------------
(* C10 *)

\* C10: a deferred task works on the host's document of the moment it runs: the
\* document the deferred reconciliation gives to setEditorState has the block keys
\* and texts the host held when the task ran, so that no edit of the host is lost.
DeferredTaskKeepsHostEdit ==
    (last.op = "exec" /\ ~last.error) => TextOf(last.out) = TextOf(last.hostBefore)

----------------------------------------------------------------------------
(* C11 *)

\* C11: handleReturn always leaves a deferred task of its own in the timer queue,
\* the strip when the current inline style is non-empty and otherwise the
\* re-run of the pass on the current document.
ReturnSchedulesReconciliation ==
    last.op = "handleReturn" =>
        \E i \in 1..Len(timers) : timers[i].origin = "handleReturn"

----------------------------------------------------------------------------
(* C12 *)

\* C12: the editor state syncExecuteStrategies returns carries no style in its
\* inlineStyleOverride, whether or not changes were applied, and so does the one
\* a deferred reconciliation hands to setEditorState.
DriverOutputOverrideEmpty ==
    PassDone =>
        /\ last.ret.override.styles = <<>>
        /\ last.op = "exec" => last.out.override.styles = <<>>

----------------------------------------------------------------------------
(* C13 *)

\* the offsets of the clamped range of change c in editor state st
ClampedOffsets(st, c) ==
    {o \in Offs(st, blockIndex(st.blocks, c.blockKey)) :
        Covers(c, o, Len(getBlockForKey(st.blocks, c.blockKey).text))}

\* some character of the clamped range of c does not carry `style` as its sole style
PairCounts(st, c, style) ==
    \E o \in ClampedOffsets(st, c) :
        getBlockForKey(st.blocks, c.blockKey).chars[o + 1] # <<style>>

\* the number of style names of c whose pair with c counts
PairCount(st, c) ==
    Cardinality({k \in 1..Len(c.styles) : PairCounts(st, c, c.styles[k])})

\* C13: for a pass with a single StyleChange whose range lies inside the text,
\* changesApplied is the number of style names of the change for which some
\* character of the range does not already carry exactly that one style name as
\* its sole style.
CountingRule ==
    (PassDone /\ Len(last.changes) = 1 /\ ReportsInsideText(decorators, last.in)) =>
        last.changesApplied = PairCount(last.in, last.changes[1])

----------------------------------------------------------------------------
(* C14 *)

\* C14: a pass during which a strategy throws is aborted by the exception: onChange
\* returns no document, the deferred reconciliation does not call setEditorState,
\* and the host's document is the one it held before.
MatcherThrowAborts ==
    [][(IsPass(last') /\ collectionThrows(decorators, last'.in)) =>
           (last'.error /\ last'.ret = Undefined /\ last'.out = Undefined /\ host' = host)]_vars

\* a deferred reconciliation ran on a stripped document on which a strategy throws
DeferredPassThrew ==
    /\ last.op = "exec"
    /\ collectionThrows(decorators, last.in)
    /\ last.error
    /\ AllUnstyled(last.in)
    /\ ~AllUnstyled(host)

----------------------------------------------------------------------------
(* C15 *)

\* C15: while the strip that handleKeyCommand('backspace') scheduled is still
\* waiting in the timer queue, no pass runs: the last operation is never a
\* reconciliation pass while such a strip is pending.
StripBeforeMatching ==
    ~(/\ IsPass(last)
      /\ \E i \in 1..Len(timers) :
            timers[i].type = "strip" /\ timers[i].origin = "handleKeyCommand")

----------------------------------------------------------------------------
(* C16 *)

\* the oldest task of the timer queue is a strip scheduled by the guard
StripPending == timers # <<>> /\ Head(timers).type = "strip"

\* the oldest task of the timer queue is a deferred reconciliation
ExecPending == timers # <<>> /\ Head(timers).type = "exec"

\* C16: a scheduled strip is followed by exactly one call of setEditorState: tasks
\* leave the timer queue only by running; the strip puts one reconciliation task
\* on the stripped document of the host in its place and leaves the host alone;
\* that task gives the host the reconciled document, or the stripped one when the
\* pass applied nothing; and a pending strip always runs, as does the
\* reconciliation task after it.
StripLeadsToSetEditorState ==
    /\ [][timers' # timers =>
             \/ last'.op \in {"strip", "exec"}
             \/ /\ last'.op \in {"handleKeyCommand", "handleReturn"}
                /\ timers' = Append(timers, stripTask(last'.op))]_vars
    /\ [][last'.op = "strip" =>
             /\ StripPending
             /\ timers' = Append(Tail(timers), execTask(Head(timers).origin, stripStyles(host)))
             /\ host' = host]_vars
    /\ [][last'.op = "exec" =>
             /\ ExecPending
             /\ timers' = Tail(timers)
             /\ last'.in = Head(timers).state
             /\ host' = last'.out
             /\ last'.changesApplied = 0 => last'.out = last'.in
             /\ last'.changesApplied > 0 =>
                    (last'.out = last'.ret /\ Reconciled(decorators, last'.in, last'.out))]_vars
    /\ StripPending ~> (last.op = "strip" /\ timers # <<>> /\ timers[Len(timers)].type = "exec")
    /\ ExecPending ~> (last.op = "exec" /\ host = last.out)

\* a deferred reconciliation that applied nothing gave the host the stripped document
StrippedDocumentDelivered ==
    /\ last.op = "exec"
    /\ last.changesApplied = 0
    /\ ~AllUnstyled(last.hostBefore)
    /\ AllUnstyled(host)
    /\ host = last.in

----------------------------------------------------------------------------
(* C17 *)

\* C17: handleKeyCommand with a command other than 'backspace', or with 'backspace'
\* while the current inline style at the host's selection is empty, leaves the
\* timer queue and the host's document as they are, and the guard's value is falsy.
UnguardedKeyCommandIsInert ==
    [][(/\ last'.op = "handleKeyCommand"
        /\ \/ last'.command # "backspace"
           \/ getCurrentInlineStyle(forceSelection(host, host.selection)) = <<>>)
       => (timers' = timers /\ host' = host /\ last'.guard = "undefined")]_vars

\* backspace on a document that has styled characters, but none at the selection
BackspaceAwayFromStyles ==
    /\ last.op = "handleKeyCommand"
    /\ last.command = "backspace"
    /\ last.guard = "undefined"
    /\ ~AllUnstyled(host)
    /\ timers = <<>>

----------------------------------------------------------------------------
(* C18 *)

\* the block keys, the texts and the selection of `after` are those of `before`
SameTextAndSelection(before, after) ==
    TextOf(after) = TextOf(before) /\ after.selection = before.selection

\* C18: what syncExecuteStrategies and onChange or the timer callback return, and
\* what stripStyles hands on, has the block keys, the texts and the selection of
\* the editor state the operation started from.
OnlyStylesChange ==
    /\ PassDone =>
          (SameTextAndSelection(last.in, last.ret) /\ SameTextAndSelection(last.in, last.out))
    /\ last.op = "strip" => SameTextAndSelection(last.in, last.out)

\* a strip whose content change moved the selection before it was restored
StripRestoredSelection ==
    /\ last.op = "strip"
    /\ last.out.blocks # last.in.blocks
    /\ last.in.selection # strippedSelectionAfter(last.in)

----------------------------------------------------------------------------
(* C19 *)

\* C19: a pass keeps the keys and texts, every character keeps the styles it had,
\* and each style it gains is a style of a rule whose clamped report covers it;
\* this holds for every pass of every sequence of host edits and hook calls, so
\* nothing but the strip ever takes a style off a character.
PassOnlyAddsStyles ==
    PassDone =>
        /\ TextOf(last.ret) = TextOf(last.in)
        /\ \A b \in 1..Len(last.in.blocks) : \A o \in Offs(last.in, b) :
              /\ StyleSetAt(last.in, b, o) \subseteq StyleSetAt(last.ret, b, o)
              /\ (StyleSetAt(last.ret, b, o) \ StyleSetAt(last.in, b, o))
                    \subseteq CoveringStyles(decorators, last.in.blocks[b], o)

\* after an edit, onChange returned a document in which a character still carries
\* BOLD although no rule's report covers it
StaleStyleKept ==
    /\ PassDone
    /\ last.op = "onChange"
    /\ \E b \in 1..Len(last.out.blocks) : \E o \in Offs(last.out, b) :
          /\ "BOLD" \in StyleSetAt(last.out, b, o)
          /\ "BOLD" \notin CoveringStyles(decorators, last.out.blocks[b], o)

====
